---- MODULE Spec2Model ----
(***************************************************************************)
(* countprof: a sampling profiler for Lua (src/countprof.c).               *)
(*                                                                         *)
(* The module models the profiler's process-wide state (rate state, the    *)
(* median window, the forest of Source/Line nodes, the hook registration   *)
(* of the Lua state and the dump file) and its operations start, stop,    *)
(* dump and the count hook.                                                *)
(*                                                                         *)
(* Build configuration modelled: CURRENTLINE 0, STACK 1, CALLCHECK 0       *)
(* (src/countprof.c:39-41).  One lua_State is profiled.  A source is the   *)
(* const char* handle lua_getinfo returns; handles are compared by         *)
(* identity, as the code does, and are taken to outlive the profiler.      *)
(*                                                                         *)
(* uint64_t values are represented by their two's complement reading:      *)
(* a non-negative number n stands for n, a negative number n stands for    *)
(* 2^64 + n.  Within the modelled range this makes unsigned subtraction    *)
(* ordinary subtraction, and unsigned comparison U64Less.                  *)
(***************************************************************************)
EXTENDS Integers, Sequences, FiniteSets, TLC

VARIABLES
  gLastCount,    \* int: previous hook count setting
  gLastTime,     \* uint64_t: last time we started running code
  gIPMSWin,      \* int[WINSIZE]: sorted view
  gIPMSRing,     \* int[WINSIZE]: insertion-order ring
  gIPMSRingIdx,  \* int: ring cursor
  gSourceHead,   \* struct Source *: top-level forest
  srcHeap,       \* the malloc'ed struct Source objects, by address
  lineHeap,      \* the malloc'ed struct Line objects, by address
  hookMask,      \* the Lua state's hook mask
  hookCount,     \* the Lua state's hook count (instruction threshold)
  clock,         \* the value gettimeofday last returned
  dumpFile,      \* contents of <pid>.cp, NoFile before the first dump
  medIpms,       \* history: value updateIPMSWin last returned
  recent,        \* history: the WINSIZE most recent values fed to the window
  nObs,          \* history: number of values fed to the window
  nChanges,      \* history: how often the fed value differed from the previous one
  samples,       \* history: how often each stack was sampled
  dumpedAt,      \* history: nObs at the last dump, -1 before the first
  lastOp,        \* history: the operation that ran last
  call           \* history: cur, gLastTime on entry, elapsed, ipms and the
                 \* final clock reading of the last countHook

vars == <<gLastCount, gLastTime, gIPMSWin, gIPMSRing, gIPMSRingIdx,
          gSourceHead, srcHeap, lineHeap, hookMask, hookCount, clock,
          dumpFile, medIpms, recent, nObs, nChanges, samples, dumpedAt,
          lastOp, call>>

rateVars == <<gLastCount, gLastTime>>
winVars == <<gIPMSWin, gIPMSRing, gIPMSRingIdx>>
forestVars == <<gSourceHead, srcHeap, lineHeap>>
hookVars == <<hookMask, hookCount>>

(***************************************************************************)
(* Program constants                                                       *)
(***************************************************************************)
WINSIZE == 19
NULL == 0
LUA_MASKCOUNT == 8
HOOKMASK == LUA_MASKCOUNT
\* the dump file not written yet: no dump writes this line
NoFile == <<[text |-> <<>>, count |-> -1]>>

(***************************************************************************)
(* Bounds                                                                  *)
(***************************************************************************)
MaxObs == 21        \* values fed to the window in SpecWin
MaxChanges == 3     \* changes of the fed value in SpecWin
IpmsVals == {-1, 0, 2}

WinIdx == 0 .. (WINSIZE - 1)

(***************************************************************************)
(* Median window: updateIPMSWin                                            *)
(***************************************************************************)

\* ++gIPMSRingIdx, wrapping at WINSIZE
NextRingIdx(idx) == IF idx + 1 >= WINSIZE THEN 0 ELSE idx + 1

\* while(gIPMSWin[i] != ipmsRem) i++;  The scan has no bound of its own: an
\* index of WINSIZE says that it ran off the array.
RECURSIVE ScanWin(_, _, _)
ScanWin(win, ipmsRem, i) ==
  IF i >= WINSIZE THEN WINSIZE
  ELSE IF win[i] # ipmsRem THEN ScanWin(win, ipmsRem, i + 1)
  ELSE i

\* BubbleUp stopping one slot early (while(i > 1))
RECURSIVE BubbleUpStopsEarly(_, _, _)
BubbleUpStopsEarly(win, ipms, i) ==
  IF i > 1 /\ ipms < win[i - 1]
  THEN BubbleUpStopsEarly([win EXCEPT ![i] = win[i - 1]], ipms, i - 1)
  ELSE <<win, i>>

\* it was less, bubble up to repair; yields the window and the final i
RECURSIVE BubbleUp(_, _, _)
BubbleUp(win, ipms, i) ==
  IF i > 0 /\ ipms < win[i - 1]
  THEN BubbleUp([win EXCEPT ![i] = win[i - 1]], ipms, i - 1)
  ELSE <<win, i>>

\* gte, bubble down to repair
RECURSIVE BubbleDown(_, _, _)
BubbleDown(win, ipms, i) ==
  IF i < WINSIZE - 1 /\ ipms > win[i + 1]
  THEN BubbleDown([win EXCEPT ![i] = win[i + 1]], ipms, i + 1)
  ELSE <<win, i>>

\* the slot after the middle one
MedianIdxOffByOne == WINSIZE \div 2 + 1

\* index of the median in the sorted view
MedianIdx == WINSIZE \div 2

\* updateIPMSWin that replaces the entry in the ring before it reads the
\* value to remove
updateIPMSWinRingFirst(win, ring, idx, ipms) ==
  LET idx1 == NextRingIdx(idx)
      ring1 == [ring EXCEPT ![idx1] = ipms]
      ipmsRem == ring1[idx1]
      i0 == ScanWin(win, ipmsRem, 0)
      rep == IF ipms < ipmsRem THEN BubbleUp(win, ipms, i0)
                               ELSE BubbleDown(win, ipms, i0)
      win1 == [rep[1] EXCEPT ![rep[2]] = ipms]
  IN [win |-> win1, ring |-> ring1, idx |-> idx1, med |-> win1[MedianIdx]]

\* update the median window / ring buffer with a new value; yields the new
\* window state and the returned median
updateIPMSWin(win, ring, idx, ipms) ==
  LET idx1 == NextRingIdx(idx)
      ipmsRem == ring[idx1]
      ring1 == [ring EXCEPT ![idx1] = ipms]
      i0 == ScanWin(win, ipmsRem, 0)
      rep == IF ipms < ipmsRem THEN BubbleUp(win, ipms, i0)
                               ELSE BubbleDown(win, ipms, i0)
      win1 == [rep[1] EXCEPT ![rep[2]] = ipms]
  IN [win |-> win1, ring |-> ring1, idx |-> idx1, med |-> win1[MedianIdx]]

\* history: the values of the window's span, oldest first
PushRecent(r, v) == Tail(r) \o <<v>>

(***************************************************************************)
(* The heap of Source and Line objects.  m = [head, S, L] is the forest:   *)
(* gSourceHead and the two kinds of malloc'ed objects, an object's address *)
(* being its index.  A location is an lvalue of pointer type, what the     *)
(* code's struct Source ** / struct Line ** point at.                      *)
(***************************************************************************)
Mem == [head |-> gSourceHead, S |-> srcHeap, L |-> lineHeap]

LocRoot == [at |-> "gSourceHead", a |-> 0]       \* &gSourceHead
LocCallHead(l) == [at |-> "callHead", a |-> l]   \* &line->callHead
LocLineHead(s) == [at |-> "lineHead", a |-> s]   \* &source->lineHead
LocSrcNext(s) == [at |-> "srcNext", a |-> s]     \* &source->next
LocLineNext(l) == [at |-> "lineNext", a |-> l]   \* &line->next

\* *loc
Load(m, loc) ==
  CASE loc.at = "gSourceHead" -> m.head
    [] loc.at = "callHead" -> m.L[loc.a].callHead
    [] loc.at = "lineHead" -> m.S[loc.a].lineHead
    [] loc.at = "srcNext" -> m.S[loc.a].next
    [] loc.at = "lineNext" -> m.L[loc.a].next

\* *loc = v
Store(m, loc, v) ==
  CASE loc.at = "gSourceHead" -> [m EXCEPT !.head = v]
    [] loc.at = "callHead" -> [m EXCEPT !.L[loc.a].callHead = v]
    [] loc.at = "lineHead" -> [m EXCEPT !.S[loc.a].lineHead = v]
    [] loc.at = "srcNext" -> [m EXCEPT !.S[loc.a].next = v]
    [] loc.at = "lineNext" -> [m EXCEPT !.L[loc.a].next = v]

\* cur->KEY and &cur->next for the two instances of the macro:
\* kind "S" is LLFIND(source) on struct Source, kind "L" LLFIND(line) on
\* struct Line
KeyOf(m, kind, cur) == IF kind = "S" THEN m.S[cur].source ELSE m.L[cur].line
LocNext(kind, cur) == IF kind = "S" THEN LocSrcNext(cur) ELSE LocLineNext(cur)

\* a hit that leaves the node where it is
PromoteNoMove(m, kind, head, prevNext, cur) == m

\* on a hit: *prevNext = cur->next; cur->next = *head; *head = cur
Promote(m, kind, head, prevNext, cur) ==
  LET m1 == Store(m, prevNext, Load(m, LocNext(kind, cur)))
      m2 == Store(m1, LocNext(kind, cur), Load(m1, head))
  IN Store(m2, head, cur)

\* the macro's loop: found says whether it returned from the function
RECURSIVE LLFIND(_, _, _, _, _, _)
LLFIND(m, kind, head, prevNext, cur, KEY) ==
  IF cur = NULL THEN [found |-> FALSE, m |-> m, cur |-> NULL]
  ELSE IF KeyOf(m, kind, cur) = KEY
       THEN [found |-> TRUE, m |-> Promote(m, kind, head, prevNext, cur), cur |-> cur]
       ELSE LLFIND(m, kind, head, LocNext(kind, cur), Load(m, LocNext(kind, cur)), KEY)

\* NewLine that does not clear the count
NewLineCountNotZero(m, head, line) ==
  LET cur == Len(m.L) + 1
      obj == [next |-> Load(m, head), line |-> line, count |-> 1, callHead |-> NULL]
  IN [m |-> Store([m EXCEPT !.L = Append(@, obj)], head, cur), cur |-> cur]

\* a fresh struct Line, linked in at the head
NewLine(m, head, line) ==
  LET cur == Len(m.L) + 1
      obj == [next |-> Load(m, head), line |-> line, count |-> 0, callHead |-> NULL]
  IN [m |-> Store([m EXCEPT !.L = Append(@, obj)], head, cur), cur |-> cur]

\* getLine taking the first Line of the list, whatever its line #
getLineAnyLine(m, head, line) ==
  IF Load(m, head) # NULL THEN [m |-> m, cur |-> Load(m, head)]
  ELSE NewLine(m, head, line)

\* getLine without the search
getLineAlwaysNew(m, head, line) == NewLine(m, head, line)

\* get the given line # from the linked list or create it
getLine(m, head, line) ==
  LET r == LLFIND(m, "L", head, head, Load(m, head), line)
  IN IF r.found THEN [m |-> r.m, cur |-> r.cur] ELSE NewLine(m, head, line)

\* a fresh struct Source, linked in at the head
NewSource(m, head, source) ==
  LET cur == Len(m.S) + 1
      obj == [next |-> Load(m, head), source |-> source, lineHead |-> NULL]
  IN [m |-> Store([m EXCEPT !.S = Append(@, obj)], head, cur), cur |-> cur]

\* get the given source from the linked list or create it
getSource(m, head, source) ==
  LET r == LLFIND(m, "S", head, head, Load(m, head), source)
  IN IF r.found THEN [m |-> r.m, cur |-> r.cur] ELSE NewSource(m, head, source)

\* A stack is the sequence of the Lua state's active frames, innermost
\* first: stack[depth + 1] is what lua_getstack(L, depth) and lua_getinfo
\* "S" give, [source, linedefined].
lua_getstack(stack, depth) == depth + 1 <= Len(stack)

\* getARLine as built with STACK 0: every frame in the top-level list
getARLineFlat(m, stack, depth) ==
  LET lineNo == stack[depth + 1].linedefined
      source == getSource(m, LocRoot, stack[depth + 1].source)
  IN getLine(source.m, LocLineHead(source.cur), lineNo)

\* the namespace of the frame at depth is the callHead of the line of the
\* frame at depth + 1, or gSourceHead when there is none
RECURSIVE getARLine(_, _, _)
getARLine(m, stack, depth) ==
  LET up == IF lua_getstack(stack, depth + 1)
            THEN LET line == getARLine(m, stack, depth + 1)
                 IN [m |-> line.m, head |-> LocCallHead(line.cur)]
            ELSE [m |-> m, head |-> LocRoot]
      lineNo == stack[depth + 1].linedefined
      source == getSource(up.m, up.head, stack[depth + 1].source)
  IN getLine(source.m, LocLineHead(source.cur), lineNo)

(***************************************************************************)
(* Rate controller: countHook                                              *)
(***************************************************************************)
INT_MAX == 2147483647
INT_MIN == -2147483647 - 1

\* a - b in uint64_t
U64Sub(a, b) == a - b

\* a < b in uint64_t
U64Less(a, b) == IF (a >= 0) = (b >= 0) THEN a < b ELSE b < 0

\* uint64_t elapsed = cur - gLastTime; if(elapsed < 1) elapsed = 1;
Elapsed(cur, lastTime) ==
  LET elapsed == U64Sub(cur, lastTime)
  IN IF U64Less(elapsed, 1) THEN 1 ELSE elapsed

\* what a build can make of a signed overflow in gLastCount * 1000
OverflowIpms == {INT_MIN, -1, 0, 1, INT_MAX}

\* int ipms = (gLastCount * 1000) / elapsed;  the product is an int, the
\* division is unsigned 64-bit.  The values the build can produce: one
\* value unless the product overflows int, or a negative product (2^64 +
\* prod as uint64_t) gives a quotient beyond the modelled range.
Ipms(lastCount, elapsed) ==
  IF lastCount > INT_MAX \div 1000 \/ lastCount < INT_MIN \div 1000
  THEN OverflowIpms
  ELSE LET prod == lastCount * 1000
       IN IF elapsed >= 0 /\ prod >= 0 THEN {prod \div elapsed}
          ELSE IF prod >= 0 THEN {0}
          ELSE IF elapsed < 0 THEN {IF prod >= elapsed THEN 1 ELSE 0}
          ELSE OverflowIpms

\* the median taken as it is
ClampMedNone(med) == med

\* if(medIpms < 1) medIpms = 1;
ClampMed(med) == IF med < 1 THEN 1 ELSE med

(***************************************************************************)
(* Report serializer: dumpSources, dumpStack                               *)
(***************************************************************************)

\* dumpStack writing the link before link->next
RECURSIVE dumpStackInnermostFirst(_, _)
dumpStackInnermostFirst(m, link) ==
  <<[source |-> Head(link).source, line |-> m.L[Head(link).line].line]>>
    \o (IF Tail(link) # <<>> THEN dumpStackInnermostFirst(m, Tail(link)) ELSE <<>>)

\* A struct Stack chain is the sequence of its links, link first, then
\* link->next ...; a link is [source, line] with line a struct Line *.
\* The text of a line is the sequence of its "%s:%d" items, which the code
\* separates by ';'.
RECURSIVE dumpStack(_, _)
dumpStack(m, link) ==
  (IF Tail(link) # <<>> THEN dumpStack(m, Tail(link)) ELSE <<>>)
    \o <<[source |-> Head(link).source, line |-> m.L[Head(link).line].line]>>

RECURSIVE dumpSources(_, _, _)
RECURSIVE dumpLines(_, _, _, _)

\* dumpLines writing a line only for a node without callHead
RECURSIVE dumpLinesLeavesOnly(_, _, _, _)
dumpLinesLeavesOnly(m, line, linkSource, next) ==
  IF line = NULL THEN <<>>
  ELSE LET link == <<[source |-> linkSource, line |-> line]>> \o next
       IN (IF m.L[line].callHead # NULL
           THEN dumpSources(m, m.L[line].callHead, link)
           ELSE <<[text |-> dumpStack(m, link), count |-> m.L[line].count]>>)
           \o dumpLinesLeavesOnly(m, m.L[line].next, linkSource, next)

\* recursively dump a linked list of sources: the lines written, in order;
\* a line is the text of dumpStack followed by " %llu\n" of the count
dumpSources(m, source, next) ==
  IF source = NULL THEN <<>>
  ELSE dumpLines(m, m.S[source].lineHead, m.S[source].source, next)
         \o dumpSources(m, m.S[source].next, next)

\* the inner while(line) loop of dumpSources
dumpLines(m, line, linkSource, next) ==
  IF line = NULL THEN <<>>
  ELSE LET link == <<[source |-> linkSource, line |-> line]>> \o next
       IN (IF m.L[line].callHead # NULL
           THEN dumpSources(m, m.L[line].callHead, link) ELSE <<>>)
           \o <<[text |-> dumpStack(m, link), count |-> m.L[line].count]>>
           \o dumpLines(m, m.L[line].next, linkSource, next)

(***************************************************************************)
(* State and operations                                                    *)
(***************************************************************************)
Init ==
  /\ gLastCount = 1
  /\ gLastTime = 0
  /\ gIPMSWin = [i \in WinIdx |-> 0]
  /\ gIPMSRing = [i \in WinIdx |-> 0]
  /\ gIPMSRingIdx = 0
  /\ gSourceHead = NULL
  /\ srcHeap = <<>>
  /\ lineHeap = <<>>
  /\ hookMask = 0
  /\ hookCount = 0
  /\ clock = 0
  /\ dumpFile = NoFile
  /\ medIpms = 0
  /\ recent = [i \in 1 .. WINSIZE |-> 0]
  /\ nObs = 0
  /\ nChanges = 0
  /\ samples = <<>>
  /\ dumpedAt = -1
  /\ lastOp = "none"
  /\ call = [cur |-> 0, lastTime |-> 0, elapsed |-> 0, ipms |-> 0, end |-> 0]

\* history: one more sample of the stack
CountSample(smp, stack) ==
  IF stack \in DOMAIN smp THEN [smp EXCEPT ![stack] = @ + 1]
  ELSE smp @@ (stack :> 1)

\* now(): the clock has moved by d since it was last read
now(d) == clock + d

\* start that begins a new profile with an empty forest
countprof_startClearsForest(d) ==
  /\ now(d) >= 0
  /\ hookMask' = HOOKMASK
  /\ hookCount' = gLastCount
  /\ gLastTime' = now(d)
  /\ clock' = now(d)
  /\ lastOp' = "start"
  /\ gSourceHead' = NULL
  /\ srcHeap' = <<>>
  /\ lineHeap' = <<>>
  /\ UNCHANGED <<gLastCount, winVars, dumpFile, medIpms, recent,
                 nObs, nChanges, samples, dumpedAt, call>>

\* start that arms the hook with the default count
countprof_startDefaultCount(d) ==
  /\ now(d) >= 0
  /\ hookMask' = HOOKMASK
  /\ hookCount' = 1
  /\ gLastTime' = now(d)
  /\ clock' = now(d)
  /\ lastOp' = "start"
  /\ UNCHANGED <<gLastCount, winVars, forestVars, dumpFile, medIpms, recent,
                 nObs, nChanges, samples, dumpedAt, call>>

\* countprof.start()
countprof_start(d) ==
  /\ now(d) >= 0
  /\ hookMask' = HOOKMASK
  /\ hookCount' = gLastCount
  /\ gLastTime' = now(d)
  /\ clock' = now(d)
  /\ lastOp' = "start"
  /\ UNCHANGED <<gLastCount, winVars, forestVars, dumpFile, medIpms, recent,
                 nObs, nChanges, samples, dumpedAt, call>>

\* stop that leaves the hook registered
countprof_stopKeepsHook ==
  /\ hookMask' = hookMask
  /\ hookCount' = -1
  /\ lastOp' = "stop"
  /\ UNCHANGED <<rateVars, winVars, forestVars, clock, dumpFile, medIpms,
                 recent, nObs, nChanges, samples, dumpedAt, call>>

\* countprof.stop()
countprof_stop ==
  /\ hookMask' = 0
  /\ hookCount' = -1
  /\ lastOp' = "stop"
  /\ UNCHANGED <<rateVars, winVars, forestVars, clock, dumpFile, medIpms,
                 recent, nObs, nChanges, samples, dumpedAt, call>>

\* a count that a sample of a Line counted before does not raise
CountLineOnce(m, cur) == [m EXCEPT !.L[cur].count = 1]

\* line->count++
CountLine(m, cur) == [m EXCEPT !.L[cur].count = @ + 1]

\* a re-arm placed before gLastCount = medIpms, with gLastCount as count
sethookCountStale(lastCount, med) == lastCount

\* the count of lua_sethook(L, hook, HOOKMASK, medIpms) in countHook
sethookCount(lastCount, med) == med

\* gLastTime = cur;
LastTimeIsCur(cur, end) == cur

\* gLastTime = now(); as the last statement of countHook
LastTimeAfter(cur, end) == end

\* countHook(L, ar, cur) with the stack the Lua state has at the interrupt;
\* end is the clock at its last statement
countHook(stack, cur, end) ==
  \E ipms \in Ipms(gLastCount, Elapsed(cur, gLastTime)) :
    LET w == updateIPMSWin(gIPMSWin, gIPMSRing, gIPMSRingIdx, ipms)
        med == ClampMed(w.med)
        line == getARLine(Mem, stack, 0)
        m == CountLine(line.m, line.cur)
    IN /\ gIPMSWin' = w.win
       /\ gIPMSRing' = w.ring
       /\ gIPMSRingIdx' = w.idx
       /\ gLastCount' = med
       /\ hookMask' = HOOKMASK
       /\ hookCount' = sethookCount(gLastCount, med)
       /\ gSourceHead' = m.head
       /\ srcHeap' = m.S
       /\ lineHeap' = m.L
       /\ gLastTime' = LastTimeAfter(cur, end)
       /\ clock' = end
       /\ lastOp' = "hook"
       /\ call' = [cur |-> cur, lastTime |-> gLastTime,
                   elapsed |-> Elapsed(cur, gLastTime), ipms |-> ipms,
                   end |-> end]
       /\ medIpms' = w.med
       /\ recent' = PushRecent(recent, ipms)
       /\ nObs' = nObs + 1
       /\ nChanges' = nChanges + (IF ipms # gIPMSRing[gIPMSRingIdx] THEN 1 ELSE 0)
       /\ samples' = CountSample(samples, stack)
       /\ UNCHANGED <<dumpFile, dumpedAt>>

\* hook(L, ar): the Lua state delivers LUA_HOOKCOUNT while the count mask is
\* set; d1 is the clock's move since its last reading, d2 its move during
\* countHook
hook(stack, d1, d2) ==
  /\ hookMask = LUA_MASKCOUNT
  /\ now(d1) >= 0
  /\ now(d1) + d2 >= 0
  /\ countHook(stack, now(d1), now(d1) + d2)

\* dump that empties the forest after writing it
countprof_dumpAndReset ==
  /\ dumpFile' = dumpSources(Mem, gSourceHead, <<>>)
  /\ dumpedAt' = nObs
  /\ lastOp' = "dump"
  /\ gSourceHead' = NULL
  /\ UNCHANGED <<rateVars, winVars, srcHeap, lineHeap, hookVars, clock,
                 medIpms, recent, nObs, nChanges, samples, call>>

\* countprof.dump()
countprof_dump ==
  /\ dumpFile' = dumpSources(Mem, gSourceHead, <<>>)
  /\ dumpedAt' = nObs
  /\ lastOp' = "dump"
  /\ UNCHANGED <<rateVars, winVars, forestVars, hookVars, clock, medIpms,
                 recent, nObs, nChanges, samples, call>>

\* updateIPMSWin(ipms) on its own
Observe(ipms) ==
  LET w == updateIPMSWin(gIPMSWin, gIPMSRing, gIPMSRingIdx, ipms)
  IN /\ gIPMSWin' = w.win
     /\ gIPMSRing' = w.ring
     /\ gIPMSRingIdx' = w.idx
     /\ medIpms' = w.med
     /\ recent' = PushRecent(recent, ipms)
     /\ nObs' = nObs + 1
     /\ nChanges' = nChanges + (IF ipms # gIPMSRing[gIPMSRingIdx] THEN 1 ELSE 0)
     /\ UNCHANGED <<rateVars, forestVars, hookVars, clock, dumpFile, samples,
                    dumpedAt, lastOp, call>>

(***************************************************************************)
(* SpecWin: the median window fed with a stream of values that changes     *)
(* at most MaxChanges times                                                *)
(***************************************************************************)
ObserveStep ==
  \E ipms \in IpmsVals :
    /\ nObs < MaxObs
    /\ (ipms # gIPMSRing[gIPMSRingIdx]) => nChanges < MaxChanges
    /\ Observe(ipms)

NextWin == ObserveStep

SpecWin == Init /\ [][NextWin]_vars

(***************************************************************************)
(* Spec: the forest under start, stop, dump and interrupts at any stack of *)
(* Stacks, with a clock that moves by 1 between interrupts                 *)
(***************************************************************************)
MaxSamples == 3     \* interrupts in Spec

Frame(source, linedefined) == [source |-> source, linedefined |-> linedefined]
Frames == {Frame("a", 1), Frame("a", 5), Frame("a", 9), Frame("b", 1)}

\* every frame on its own and called from a:1, b:1 calling a:1, and two
\* stacks of three frames, one of them a recursion
Stacks ==
  {<<f>> : f \in Frames}
    \cup {<<f, Frame("a", 1)>> : f \in Frames}
    \cup {<<Frame("a", 1), Frame("b", 1)>>,
          <<Frame("b", 1), Frame("a", 5), Frame("a", 1)>>,
          <<Frame("a", 1), Frame("a", 1), Frame("a", 1)>>}

StartStep == countprof_start(0)

StopStep == countprof_stop

DumpStep == countprof_dump

HookStep ==
  \E stack \in Stacks :
    /\ nObs < MaxSamples
    /\ hook(stack, 1, 0)

Next == StartStep \/ StopStep \/ DumpStep \/ HookStep

Spec == Init /\ [][Next]_vars

(***************************************************************************)
(* SpecScen: the scenarios of the end-to-end tests, stacks of at least two *)
(* frames                                                                  *)
(***************************************************************************)
ScenSamples == 5    \* interrupts in SpecScen

ScenStacks ==
  {<<Frame("mod.lua", 20), Frame("mod.lua", 10)>>,
   <<Frame("a", 5), Frame("a", 1)>>,
   <<Frame("a", 9), Frame("a", 1)>>,
   <<Frame("a", 9), Frame("a", 5), Frame("a", 1)>>}

ScenHookStep ==
  \E stack \in ScenStacks :
    /\ nObs < ScenSamples
    /\ hook(stack, 100, 0)

NextScen == StartStep \/ StopStep \/ DumpStep \/ ScenHookStep

SpecScen == Init /\ [][NextScen]_vars

(***************************************************************************)
(* SpecClock: the rate controller under a clock that stands still, moves   *)
(* on or steps back, at a fixed stack                                      *)
(***************************************************************************)
MaxClockSamples == 3   \* interrupts in SpecClock
MaxClock == 4          \* largest clock reading in SpecClock

ClockSteps == {-1, 0, 2}
HookDurations == {0, 1}
OneStack == <<Frame("a", 1)>>

ClockStartStep ==
  \E d \in ClockSteps :
    /\ now(d) <= MaxClock
    /\ countprof_start(d)

ClockHookStep ==
  \E d1 \in ClockSteps, d2 \in HookDurations :
    /\ nObs < MaxClockSamples
    /\ now(d1) + d2 <= MaxClock
    /\ hook(OneStack, d1, d2)

NextClock == ClockStartStep \/ StopStep \/ ClockHookStep

SpecClock == Init /\ [][NextClock]_vars

(***************************************************************************)
(* SpecRate: a long run of interrupts, fast, slower or very slow, at a     *)
(* fixed stack                                                             *)
(***************************************************************************)
MaxRateSamples == 10   \* interrupts in SpecRate

RateSteps == {0, 3, 2000}

RateHookStep ==
  \E d1 \in RateSteps :
    /\ nObs < MaxRateSamples
    /\ hook(OneStack, d1, 0)

NextRate == StartStep \/ StopStep \/ RateHookStep

SpecRate == Init /\ [][NextRate]_vars

(***************************************************************************)
(* SpecStart: sessions of fast or slower interrupts at a fixed stack,      *)
(* started with a clock that stood still, moved on or stepped back, up to  *)
(* MaxClock                                                                *)
(***************************************************************************)
StartRunSteps == {0, 3}

StartRunHookStep ==
  \E d1 \in StartRunSteps :
    /\ nObs < MaxRateSamples
    /\ hook(OneStack, d1, 0)

NextStart == ClockStartStep \/ StopStep \/ StartRunHookStep

SpecStart == Init /\ [][NextStart]_vars

(***************************************************************************)
(* SpecSib: sibling lists of three nodes, found again at any position      *)
(***************************************************************************)
MaxSibSamples == 5   \* interrupts in SpecSib

\* three lines of one source, three sources, and a call from a:1
SibStacks ==
  {<<Frame("a", 1)>>, <<Frame("a", 5)>>, <<Frame("a", 9)>>,
   <<Frame("b", 1)>>, <<Frame("c", 1)>>,
   <<Frame("a", 5), Frame("a", 1)>>}

SibHookStep ==
  \E stack \in SibStacks :
    /\ nObs < MaxSibSamples
    /\ hook(stack, 1, 0)

NextSib == StartStep \/ StopStep \/ SibHookStep

SpecSib == Init /\ [][NextSib]_vars

(***************************************************************************)
(* SpecLong: a run of interrupts 1 us apart, after a few that may be 1 ms  *)
(* apart, at a fixed stack; the clock never stands still or steps back     *)
(***************************************************************************)
MaxLongSamples == 32   \* interrupts in SpecLong
MaxSlowSamples == 2    \* the first interrupts, which may be slow

LongSteps == {1, 1000}

LongHookStep ==
  \E d1 \in LongSteps :
    /\ nObs < MaxLongSamples
    /\ d1 = 1 \/ nObs < MaxSlowSamples
    /\ hook(OneStack, d1, 0)

NextLong == StartStep \/ StopStep \/ LongHookStep

SpecLong == Init /\ [][NextLong]_vars

(***************************************************************************)
(* Properties of the median window                                         *)
(***************************************************************************)

\* v is the k-th smallest of the values of the sequence r
IsKthSmallest(v, r, k) ==
  /\ Cardinality({i \in DOMAIN r : r[i] < v}) <= k - 1
  /\ Cardinality({i \in DOMAIN r : r[i] <= v}) >= k

\* number of slots of the array arr holding v
Occurrences(arr, v) == Cardinality({i \in DOMAIN arr : arr[i] = v})

\* C1: after each insertion the value updateIPMSWin returned is the true
\* median, the 10th smallest, of the 19 most recent values, the initial
\* zeros standing in for the values not yet fed.
C1_MedianCorrect ==
  nObs >= 1 => IsKthSmallest(medIpms, recent, (WINSIZE + 1) \div 2)

\* more than 19 values were fed, the window holds different values and the
\* median is not the initial 0
C1_Witness ==
  /\ nObs > WINSIZE
  /\ medIpms = 2
  /\ gIPMSWin[0] = -1

\* C2: in the initial state and after every observe the sorted view is in
\* ascending order and holds the same multiset of 19 values as the ring.
C2_WindowInvariant ==
  /\ \A i \in 0 .. (WINSIZE - 2) : gIPMSWin[i] <= gIPMSWin[i + 1]
  /\ \A i \in WinIdx :
       /\ Occurrences(gIPMSWin, gIPMSRing[i]) = Occurrences(gIPMSRing, gIPMSRing[i])
       /\ Occurrences(gIPMSRing, gIPMSWin[i]) = Occurrences(gIPMSWin, gIPMSWin[i])

\* the ring wrapped and holds duplicates of a negative and of a positive
\* value
C2_Witness ==
  /\ nObs > WINSIZE
  /\ Occurrences(gIPMSRing, -1) >= 2
  /\ Occurrences(gIPMSRing, 2) >= 2
  /\ gIPMSRing[gIPMSRingIdx] = -1

(***************************************************************************)
(* Properties of the rate controller                                       *)
(***************************************************************************)

\* C3: the interval countHook returns and re-arms the hook with is never
\* less than 1, so gLastCount >= 1 in every reachable state, and so is the
\* count start() arms with.
C3_RateClamped ==
  /\ gLastCount >= 1
  /\ hookMask = LUA_MASKCOUNT => hookCount >= 1

\* an interrupt whose median was below 1 although the window holds
\* throughput samples, re-armed with 1
C3_Witness ==
  /\ lastOp = "hook"
  /\ nObs >= 10
  /\ medIpms < 1
  /\ gIPMSWin[WINSIZE - 1] = 1000
  /\ hookCount = 1

\* C7: the elapsed value countHook computes the throughput from is
\* max(cur - gLastTime, 1), also when cur = gLastTime and when the clock
\* stepped back (cur < gLastTime).
C7_ElapsedIsMax ==
  nObs >= 1 =>
    call.elapsed = (IF call.cur - call.lastTime > 1
                    THEN call.cur - call.lastTime ELSE 1)

\* C8 as stated: after countHook returns, gLastTime is the cur it was
\* passed.
C8_LastTimeIsCur ==
  [][nObs' = nObs + 1 => gLastTime' = call'.cur]_vars

\* C8 amended: after countHook returns, gLastTime is the reading of the
\* clock that countHook takes itself as its last statement, and the elapsed
\* of an interrupt was measured from the gLastTime it found.
C8_LastTimeIsEnd ==
  [][nObs' = nObs + 1 =>
       /\ gLastTime' = call'.end
       /\ gLastTime' = clock'
       /\ call'.lastTime = gLastTime
       /\ call'.elapsed = Elapsed(call'.cur, gLastTime)]_vars

\* an interrupt during which the clock moved, following another one
C8_Witness ==
  /\ lastOp = "hook"
  /\ nObs >= 2
  /\ call.end # call.cur
  /\ gLastTime = call.end
  /\ call.cur > call.lastTime

(***************************************************************************)
(* Observing the forest                                                    *)
(***************************************************************************)
Range(seq) == {seq[i] : i \in DOMAIN seq}

\* the objects of a list from p on, at most n of them
RECURSIVE ListFrom(_, _, _, _)
ListFrom(m, kind, p, n) ==
  IF p = NULL \/ n = 0 THEN <<>>
  ELSE <<p>> \o ListFrom(m, kind, Load(m, LocNext(kind, p)), n - 1)

SrcList(m, first) == ListFrom(m, "S", first, Len(m.S))
LineList(m, first) == ListFrom(m, "L", first, Len(m.L))

\* the Source whose line list holds the Line l
SourceOf(m, l) ==
  CHOOSE s \in DOMAIN m.S : l \in Range(LineList(m, m.S[s].lineHead))

\* the Line whose callHead list holds the Source s, NULL for a Source of
\* the top-level list
ParentOf(m, s) ==
  IF s \in Range(SrcList(m, m.head)) THEN NULL
  ELSE CHOOSE l \in DOMAIN m.L : s \in Range(SrcList(m, m.L[l].callHead))

\* the source:line keys from the top-level forest down to the Line l
RECURSIVE PathOf(_, _)
PathOf(m, l) ==
  LET s == SourceOf(m, l)
      up == ParentOf(m, s)
  IN (IF up = NULL THEN <<>> ELSE PathOf(m, up))
       \o <<[source |-> m.S[s].source, line |-> m.L[l].line]>>

\* the Lines under the namespace head with the key of frame
LinesIn(m, head, frame) ==
  UNION {{l \in Range(LineList(m, m.S[s].lineHead)) :
            m.L[l].line = frame.linedefined} :
         s \in {t \in Range(SrcList(m, head)) : m.S[t].source = frame.source}}

\* the Lines that stand for the frame at depth of the stack
RECURSIVE NodesAt(_, _, _)
NodesAt(m, stack, depth) ==
  IF lua_getstack(stack, depth + 1)
  THEN UNION {LinesIn(m, m.L[up].callHead, stack[depth + 1]) :
                up \in NodesAt(m, stack, depth + 1)}
  ELSE LinesIn(m, m.head, stack[depth + 1])

\* the heads of all sibling lists of Sources
Namespaces(m) == {m.head} \cup {m.L[l].callHead : l \in DOMAIN m.L}

\* the nodes of a namespace, each a Source and one of its Lines
NodesUnder(m, head) ==
  UNION {{<<s, l>> : l \in Range(LineList(m, m.S[s].lineHead))} :
         s \in Range(SrcList(m, head))}

\* the dump file shows the forest as it is now
DumpFresh == dumpFile # NoFile /\ dumpedAt = nObs

\* the line of the report for a stack with a count: outermost frame first
LineOfStack(stack, n) ==
  [text |-> [i \in 1 .. Len(stack) |->
               [source |-> stack[Len(stack) + 1 - i].source,
                line |-> stack[Len(stack) + 1 - i].linedefined]],
   count |-> n]

\* the stacks that are a proper outer part of the stack
OuterParts(stack) == {SubSeq(stack, k, Len(stack)) : k \in 2 .. Len(stack)}

RECURSIVE SumCounts(_, _)
SumCounts(L, n) == IF n = 0 THEN 0 ELSE L[n].count + SumCounts(L, n - 1)

(***************************************************************************)
(* Properties of the forest and the report                                 *)
(***************************************************************************)

\* C4: dump writes exactly one line for every node of the forest, nodes
\* with children included, and no other line; the line shows the keys of
\* the path from the top-level forest to the node and the node's count.
C4_ReportComplete ==
  DumpFresh =>
    /\ Len(dumpFile) = Len(lineHeap)
    /\ \A l \in DOMAIN lineHeap :
         Cardinality({i \in DOMAIN dumpFile :
                        dumpFile[i] = [text |-> PathOf(Mem, l),
                                       count |-> lineHeap[l].count]}) = 1

\* a dump of a forest with a node that has children, was sampled itself
\* and has a sibling, and a node that was never sampled
C4_Witness ==
  /\ DumpFresh
  /\ \E l \in DOMAIN lineHeap :
       /\ lineHeap[l].callHead # NULL
       /\ lineHeap[l].count >= 1
       /\ lineHeap[l].next # NULL
  /\ \E l \in DOMAIN lineHeap : lineHeap[l].count = 0

\* C5 as stated: after sampling only stacks of at least two frames, dump
\* holds exactly one line per distinct sampled stack, with the number of
\* its samples, and no other line.
C5_OneLinePerStack ==
  (DumpFresh /\ \A st \in DOMAIN samples : Len(st) >= 2) =>
    /\ Range(dumpFile) = {LineOfStack(st, samples[st]) : st \in DOMAIN samples}
    /\ Len(dumpFile) = Cardinality(DOMAIN samples)

\* the lines C5 amended expects
ExpectedLines ==
  {LineOfStack(st, samples[st]) : st \in DOMAIN samples}
    \cup {LineOfStack(p, 0) :
            p \in UNION {OuterParts(st) : st \in DOMAIN samples} \ DOMAIN samples}

\* C5 amended: after sampling only stacks of at least two frames, dump
\* holds one line per distinct sampled stack, with the number of its
\* samples, one line with count 0 for every proper outer part of a sampled
\* stack that was not sampled itself, and no other line.
C5_LinesWithOuterParts ==
  (DumpFresh /\ \A st \in DOMAIN samples : Len(st) >= 2) =>
    /\ Range(dumpFile) = ExpectedLines
    /\ Len(dumpFile) = Cardinality(ExpectedLines)

\* the branching scenario: two samples of a:1;a:5, three of a:1;a:9, dumped
C5_Witness ==
  /\ DumpFresh
  /\ DOMAIN samples = {<<Frame("a", 5), Frame("a", 1)>>,
                       <<Frame("a", 9), Frame("a", 1)>>}
  /\ samples[<<Frame("a", 5), Frame("a", 1)>>] = 2
  /\ samples[<<Frame("a", 9), Frame("a", 1)>>] = 3
  /\ Len(dumpFile) = 3

\* C6: a path recorded N times has a leaf count of exactly N, whatever
\* other paths were recorded in between, and no two nodes of one sibling
\* set have the same (source, line) key.
C6_CountsAndUniqueSiblings ==
  /\ \A head \in Namespaces(Mem) : \A p, q \in NodesUnder(Mem, head) :
       (/\ srcHeap[p[1]].source = srcHeap[q[1]].source
        /\ lineHeap[p[2]].line = lineHeap[q[2]].line) => p = q
  /\ \A st \in DOMAIN samples :
       \E l \in DOMAIN lineHeap :
         /\ NodesAt(Mem, st, 0) = {l}
         /\ lineHeap[l].count = samples[st]

\* three samples: a path of two frames recorded twice, another path once
C6_Witness ==
  /\ nObs = 3
  /\ \E st \in DOMAIN samples : samples[st] = 2 /\ Len(st) = 2
  /\ Cardinality(DOMAIN samples) = 2
  /\ lastOp = "hook"

\* C9: dump leaves every node, count, the sibling order, the median window,
\* the rate state and the hook as they are; a second dump with no interrupt
\* in between writes the same lines; a sample after a dump goes into the
\* same forest.
C9_DumpReadOnly ==
  [][((lastOp' = "dump") =>
        /\ UNCHANGED <<forestVars, winVars, rateVars, hookVars>>
        /\ (DumpFresh => dumpFile' = dumpFile))
     /\ ((lastOp = "dump" /\ lastOp' = "hook") =>
        /\ Len(lineHeap') >= Len(lineHeap)
        /\ \A l \in DOMAIN lineHeap :
             /\ lineHeap'[l].line = lineHeap[l].line
             /\ lineHeap'[l].count >= lineHeap[l].count
        /\ SumCounts(lineHeap', Len(lineHeap'))
             = SumCounts(lineHeap, Len(lineHeap)) + 1)]_vars

\* a sample taken after a dump of a forest of several nodes, counted on a
\* node that had been sampled before
C9_Witness ==
  /\ lastOp = "hook"
  /\ dumpFile # NoFile
  /\ dumpedAt = nObs - 1
  /\ Len(dumpFile) >= 2
  /\ Len(dumpFile) = Len(lineHeap)
  /\ \E l \in DOMAIN lineHeap : lineHeap[l].count >= 2

\* C10: stop only unregisters the hook; it leaves the forest, the median
\* window, gLastCount and gLastTime as they are, and while the hook is not
\* registered nothing but start changes any of them: no interrupt is
\* processed.
C10_StopOnlyDisarms ==
  [][((lastOp' = "stop") =>
        /\ hookMask' = 0
        /\ UNCHANGED <<forestVars, winVars, rateVars>>)
     /\ ((hookMask = 0 /\ lastOp' # "start") =>
        UNCHANGED <<forestVars, winVars, rateVars, nObs, hookMask>>)]_vars

\* the profiler stopped after two interrupts, and dumped while stopped
C10_Witness ==
  /\ hookMask = 0
  /\ lastOp = "dump"
  /\ nObs >= 2
  /\ Len(lineHeap) >= 2
  /\ gLastCount = hookCount + 2

(***************************************************************************)
(* Properties of start                                                     *)
(***************************************************************************)

\* the interval the most recent interrupt returned, 1 before the first
LastInterval == IF nObs = 0 THEN 1 ELSE IF medIpms < 1 THEN 1 ELSE medIpms

\* C11: start arms the hook with the last-known count, 1 before the first
\* interrupt and else the interval the most recent interrupt returned, also
\* after a stop; it sets gLastTime to the clock it reads and changes
\* neither the forest nor the median window.
C11_StartArmsLastCount ==
  [][(lastOp' = "start") =>
        /\ hookMask' = HOOKMASK
        /\ hookCount' = LastInterval
        /\ gLastTime' = clock'
        /\ UNCHANGED <<gLastCount, forestVars, winVars>>]_vars

\* a start after a stop that followed interrupts which raised the interval
\* above the default, with a clock that moved since the last interrupt
C11_Witness ==
  /\ lastOp = "start"
  /\ nObs >= 10
  /\ hookCount = 1000
  /\ gLastTime = clock
  /\ gLastTime > call.end
  /\ Len(lineHeap) = 1

(***************************************************************************)
(* Properties of the paths of the forest                                   *)
(***************************************************************************)

\* the stacks differ in the line of their innermost frame and in nothing
\* else
DifferInLeafLine(s1, s2) ==
  /\ Len(s1) = Len(s2)
  /\ Tail(s1) = Tail(s2)
  /\ s1[1].source = s2[1].source
  /\ s1[1].linedefined # s2[1].linedefined

\* C12: two recorded stacks that differ only in the line number of their
\* deepest frame have two distinct leaf nodes, siblings in the same
\* namespace (the same Source of the same parent), each with its own count.
C12_DistinctLeaves ==
  \A s1, s2 \in DOMAIN samples :
    DifferInLeafLine(s1, s2) =>
      \E l1 \in NodesAt(Mem, s1, 0), l2 \in NodesAt(Mem, s2, 0) :
        /\ l1 # l2
        /\ SourceOf(Mem, l1) = SourceOf(Mem, l2)
        /\ ParentOf(Mem, SourceOf(Mem, l1)) = ParentOf(Mem, SourceOf(Mem, l2))
        /\ lineHeap[l1].line = s1[1].linedefined
        /\ lineHeap[l2].line = s2[1].linedefined
        /\ lineHeap[l1].count = samples[s1]
        /\ lineHeap[l2].count = samples[s2]

\* a:1;a:5 recorded twice and a:1;a:9 once
C12_Witness ==
  /\ <<Frame("a", 5), Frame("a", 1)>> \in DOMAIN samples
  /\ <<Frame("a", 9), Frame("a", 1)>> \in DOMAIN samples
  /\ samples[<<Frame("a", 5), Frame("a", 1)>>] = 2
  /\ samples[<<Frame("a", 9), Frame("a", 1)>>] = 1
  /\ Len(lineHeap) = 3

\* the stack the step's interrupt sampled
SampledStack ==
  CHOOSE st \in DOMAIN samples' :
    st \notin DOMAIN samples \/ samples'[st] # samples[st]

\* the count of the Line at address l before the step, 0 for a Line the
\* step created
CountBefore(l) == IF l \in DOMAIN lineHeap THEN lineHeap[l].count ELSE 0

\* C13: a processed interrupt adds exactly 1 to the count of the node of
\* the innermost frame of its stack and changes no other count; the nodes
\* it creates on the way start at 0; no other step changes a count.
C13_LeafOnlyCounting ==
  [][/\ (nObs' = nObs + 1) =>
          \E leaf \in NodesAt(Mem', SampledStack, 0) :
            /\ lineHeap'[leaf].count = CountBefore(leaf) + 1
            /\ \A l \in DOMAIN lineHeap' \ {leaf} :
                 lineHeap'[l].count = CountBefore(l)
     /\ (nObs' = nObs) =>
          /\ DOMAIN lineHeap' = DOMAIN lineHeap
          /\ \A l \in DOMAIN lineHeap : lineHeap'[l].count = lineHeap[l].count]_vars

\* a sample of three frames left its two outer nodes at 0, and a later
\* sample ended at one of them
C13_Witness ==
  /\ DOMAIN samples = {<<Frame("b", 1), Frame("a", 5), Frame("a", 1)>>,
                       <<Frame("a", 5), Frame("a", 1)>>}
  /\ Len(lineHeap) = 3
  /\ \E l \in DOMAIN lineHeap : lineHeap[l].count = 0
  /\ \E l \in DOMAIN lineHeap :
       lineHeap[l].count = 1 /\ lineHeap[l].callHead # NULL

(***************************************************************************)
(* Properties of the nesting of the forest                                 *)
(***************************************************************************)

\* the paths of all nodes of the forest
PathsOf(m) == {PathOf(m, l) : l \in DOMAIN m.L}

\* the paths a stack needs: its own and those of its outer parts
StackPaths(stack) ==
  {LineOfStack(p, 0).text : p \in OuterParts(stack) \cup {stack}}

\* the Sources that stand for the source of the frame at depth of the stack
SourcesAt(m, stack, depth) ==
  LET heads == IF lua_getstack(stack, depth + 1)
               THEN {m.L[up].callHead : up \in NodesAt(m, stack, depth + 1)}
               ELSE {m.head}
  IN UNION {{s \in Range(SrcList(m, h)) : m.S[s].source = stack[depth + 1].source} :
            h \in heads}

\* C14: after the interrupt the node of the frame at depth d is in the child
\* namespace of the node of the frame at depth d + 1, the outermost one in
\* the top-level forest, so the forest holds the path of the stack from
\* the outermost to the innermost frame; only the missing Lines and Sources
\* were created; the line of the report lists the frames outermost first.
C14_StackNesting ==
  /\ [][(nObs' = nObs + 1) =>
          LET st == SampledStack
          IN /\ \A d \in 0 .. Len(st) - 1 :
                  Cardinality(NodesAt(Mem', st, d)) = 1
             /\ \A leaf \in NodesAt(Mem', st, 0) :
                  PathOf(Mem', leaf) = LineOfStack(st, 0).text
             /\ PathsOf(Mem') = PathsOf(Mem) \cup StackPaths(st)
             /\ Len(lineHeap') =
                  Len(lineHeap) + Cardinality(StackPaths(st) \ PathsOf(Mem))
             /\ Len(srcHeap') =
                  Len(srcHeap)
                    + Cardinality({d \in 0 .. Len(st) - 1 :
                                     SourcesAt(Mem, st, d) = {}})]_vars
  /\ [](DumpFresh =>
          \A st \in DOMAIN samples :
            LineOfStack(st, samples[st]) \in Range(dumpFile))

\* the dump after a sample of three frames whose two outer frames had
\* their nodes already
C14_Witness ==
  /\ DumpFresh
  /\ samples = (<<Frame("a", 5), Frame("a", 1)>> :> 2)
                 @@ (<<Frame("b", 1), Frame("a", 5), Frame("a", 1)>> :> 1)
  /\ Len(lineHeap) = 3
  /\ Len(srcHeap) = 3
  /\ \E l \in DOMAIN lineHeap : Len(PathOf(Mem, l)) = 3

\* the head of the sibling list of a Source whose parent Line is up
HeadUnder(m, up) == IF up = NULL THEN m.head ELSE m.L[up].callHead

\* C15: no step of start, stop, dump or an interrupt removes a node of the
\* forest or lowers a count: every Source and Line stays, with its key, in
\* the list of the same parent, and its count does not decrease.
C15_MonotoneForest ==
  [][\/ UNCHANGED forestVars
     \/ /\ Len(srcHeap') >= Len(srcHeap)
        /\ Len(lineHeap') >= Len(lineHeap)
        /\ \A s \in DOMAIN srcHeap :
             /\ srcHeap'[s].source = srcHeap[s].source
             /\ s \in Range(SrcList(Mem', HeadUnder(Mem', ParentOf(Mem, s))))
        /\ \A l \in DOMAIN lineHeap :
             /\ lineHeap'[l].line = lineHeap[l].line
             /\ lineHeap'[l].count >= lineHeap[l].count
             /\ l \in Range(LineList(Mem', srcHeap'[SourceOf(Mem, l)].lineHead))]_vars

\* start has run on a forest of three nodes with three samples that has
\* been dumped
C15_Witness ==
  /\ lastOp = "start"
  /\ dumpFile # NoFile
  /\ nObs = MaxSamples
  /\ Len(lineHeap) = 3
  /\ \E l \in DOMAIN lineHeap : lineHeap[l].count = 2

(***************************************************************************)
(* Properties of the sibling lists                                         *)
(***************************************************************************)

\* the heads of all sibling lists, each with the kind of its list
ListHeads(m) ==
  {[kind |-> "S", loc |-> LocRoot]}
    \cup {[kind |-> "S", loc |-> LocCallHead(l)] : l \in DOMAIN m.L}
    \cup {[kind |-> "L", loc |-> LocLineHead(s)] : s \in DOMAIN m.S}

\* the number of objects of the kind
HeapLen(m, kind) == IF kind = "S" THEN Len(m.S) ELSE Len(m.L)

\* the list at a head, followed for one step more than there are objects;
\* empty for the head of an object that does not exist in m
ListAt(m, h) ==
  IF h \in ListHeads(m)
  THEN ListFrom(m, h.kind, Load(m, h.loc), HeapLen(m, h.kind) + 1)
  ELSE <<>>

\* following next from the head reaches NULL and meets no object twice
Acyclic(m, h) ==
  /\ Len(ListAt(m, h)) <= HeapLen(m, h.kind)
  /\ Cardinality(Range(ListAt(m, h))) = Len(ListAt(m, h))

Without(list, x) == SelectSeq(list, LAMBDA y : y # x)

\* new is old, or old with one of its nodes or a node created since moved
\* to the front and all other nodes in their order
MovedToFront(old, new, oldLen) ==
  \/ new = old
  \/ /\ new # <<>>
     /\ Head(new) \in Range(old) \/ Head(new) > oldLen
     /\ Tail(new) = Without(old, Head(new))
     /\ Range(new) = Range(old) \cup {Head(new)}

\* C16: after the getSource and getLine calls of an interrupt, the node
\* each returned is the head of its sibling list, in every list all other
\* siblings keep their order, every list is acyclic, and the siblings of a
\* list are those it had and the one node added on a miss.
C16_MoveToFront ==
  [][(nObs' = nObs + 1) =>
       /\ \A h \in ListHeads(Mem') :
            /\ Acyclic(Mem', h)
            /\ MovedToFront(ListAt(Mem, h), ListAt(Mem', h), HeapLen(Mem, h.kind))
       /\ \A d \in 0 .. Len(SampledStack) - 1 :
            \A l \in NodesAt(Mem', SampledStack, d) :
              LET s == SourceOf(Mem', l)
                  up == ParentOf(Mem', s)
              IN /\ Load(Mem', LocLineHead(s)) = l
                 /\ Load(Mem', IF up = NULL THEN LocRoot ELSE LocCallHead(up)) = s]_vars

\* the Line created first was found behind two siblings created later and
\* is the head of the list, the two follow in their order
C16_Witness ==
  /\ lastOp = "hook"
  /\ nObs = 4
  /\ \E s \in DOMAIN srcHeap : LineList(Mem, srcHeap[s].lineHead) = <<1, 3, 2>>

\* C17: the counts of all nodes of the forest add up to the number of
\* interrupts processed.
C17_SampleConservation == SumCounts(lineHeap, Len(lineHeap)) = nObs

\* three interrupts, two of them at the same stack, and a node that no
\* sample ended at
C17_Witness ==
  /\ nObs = 3
  /\ Len(lineHeap) = 3
  /\ \E l \in DOMAIN lineHeap : lineHeap[l].count = 2
  /\ \E l \in DOMAIN lineHeap : lineHeap[l].count = 0
  /\ lastOp = "hook"

\* C18: whenever the hook is armed, after start and after every interrupt,
\* the count registered with the Lua state is gLastCount, and the
\* throughput sample of an interrupt is computed from the count that was
\* armed when it fired.
C18_ArmedCountIsLastCount ==
  /\ [](hookMask = LUA_MASKCOUNT => hookCount = gLastCount)
  /\ [][(nObs' = nObs + 1) =>
          call'.ipms \in Ipms(hookCount, call'.elapsed)]_vars

\* an interrupt that fired at count 1 and re-armed with 1000
C18_Witness ==
  /\ lastOp = "hook"
  /\ hookMask = LUA_MASKCOUNT
  /\ hookCount = 1000
  /\ gLastCount = 1000
  /\ call.ipms = 1000
  /\ call.elapsed = 1

\* C19: with every interrupt at least 1 us after the reading of the clock
\* before it, gLastCount stays at most 2147483, so that gLastCount * 1000
\* is an int, and no throughput sample is negative.
C19_NoOverflow ==
  (nObs >= 1 /\ call.cur - call.lastTime >= 1) =>
    /\ gLastCount <= INT_MAX \div 1000
    /\ call.ipms >= 0

(***************************************************************************)
(* Properties of the scan of the median window                             *)
(***************************************************************************)

\* the value the next updateIPMSWin removes
NextRem == gIPMSRing[NextRingIdx(gIPMSRingIdx)]

\* C20: in every reachable state of the window, whatever value comes next,
\* the scan of updateIPMSWin for the value it removes from the ring ends at
\* an index in 0 .. 18: that value is in the sorted view.
C20_ScanInBounds ==
  /\ ScanWin(gIPMSWin, NextRem, 0) \in WinIdx
  /\ Occurrences(gIPMSWin, NextRem) >= 1

\* the ring is full of observed values and the value to remove is in the
\* last slot of the sorted view only
C20_Witness ==
  /\ nObs >= WINSIZE
  /\ ScanWin(gIPMSWin, NextRem, 0) = WINSIZE - 1
  /\ gIPMSWin[0] = -1

====
